---------------------------- MODULE Spec2Model ----------------------------
(***************************************************************************)
(* Dataset Analyzer API (src/main.py): the /api/analyze handler, the row   *)
(* cleaning, the DataFrame built from the cleaned rows and the summary     *)
(* computed by analyze_dataset, as a state machine.                        *)
(*                                                                         *)
(* Representation.  A JSON value is a record [kind, val]: a number         *)
(* ("num", n), a string ("str"), null ("null"), a list ("list") or an      *)
(* object ("dict").  A row (a Python dict) is a function from its keys to  *)
(* values; the keys of a row are iterated in the order of KeyOrder.  A     *)
(* text (a Python str) is the sequence of its lines.  A float is a record  *)
(* [nan, c] with c the value in hundredths (what round(x, 2) keeps).       *)
(* An optional local is a sequence of length 0 (unset) or 1.               *)
(***************************************************************************)
EXTENDS Integers, Sequences, FiniteSets, TLC

\* ------------------------------------------------------------------ bounds
\* Longest row list of a payload (specifications Spec and SpecFn).
MaxRows == 2
\* Number of requests served concurrently (specification SpecConc).
NReq == 2

\* ------------------------------------------------------------- JSON values
Num(n) == [kind |-> "num", val |-> n]
Str == [kind |-> "str", val |-> 0]
Null == [kind |-> "null", val |-> 0]
List == [kind |-> "list", val |-> 0]
Dict == [kind |-> "dict", val |-> 0]
\* The cell pandas puts where a row has no value for a column (np.nan).
NaN == [kind |-> "nan", val |-> 0]

\* The order in which the keys of a row are iterated (dict insertion order).
KeyOrder == <<"a", "b", "c", "d", "undefined">>

Min(x, y) == IF x <= y THEN x ELSE y

\* The keys of a row, in iteration order.
RECURSIVE KeysFrom(_, _)
KeysFrom(row, i) ==
    IF i > Len(KeyOrder) THEN <<>>
    ELSE (IF KeyOrder[i] \in DOMAIN row THEN <<KeyOrder[i]>> ELSE <<>>)
         \o KeysFrom(row, i + 1)
RowKeys(row) == KeysFrom(row, 1)

Range(s) == {s[i] : i \in DOMAIN s}

\* ---------------------------------------------------------------- clean_data
\* Variant of IsNested: isinstance(value, list) alone.
IsNestedDropsOnlyLists(value) == value.kind = "list"
\* isinstance(value, (list, dict))
IsNested(value) == value.kind \in {"list", "dict"}

\* The inner loop of clean_data: the fields of `row` that are kept.  (A JSON
\* key is a string, so `key is None` never holds.)
KeptKeys(row) == {k \in DOMAIN row : k # "undefined" /\ ~IsNested(row[k])}
clean_row(row) == [k \in KeptKeys(row) |-> row[k]]

\* The outer loop of clean_data, from row i on: a row is appended only when
\* its clean_row is not empty.
RECURSIVE CleanFrom(_, _)
CleanFrom(dados, i) ==
    IF i > Len(dados) THEN <<>>
    ELSE (IF DOMAIN clean_row(dados[i]) # {} THEN <<clean_row(dados[i])>> ELSE <<>>)
         \o CleanFrom(dados, i + 1)
clean_data(dados_completos) == CleanFrom(dados_completos, 1)

\* ---------------------------------------------------------------- DataFrame
\* pd.DataFrame(list of dicts): the columns are the keys in order of first
\* appearance; a row without a column gets NaN there.
RECURSIVE ColumnsFrom(_, _, _)
ColumnsFrom(rows, i, seen) ==
    IF i > Len(rows) THEN seen
    ELSE ColumnsFrom(rows, i + 1,
                     seen \o SelectSeq(RowKeys(rows[i]), LAMBDA k : k \notin Range(seen)))
Columns(rows) == ColumnsFrom(rows, 1, <<>>)

RawCell(row, col) == IF col \in DOMAIN row THEN row[col] ELSE NaN

\* The dtype pandas infers for a column of cells: float64/int64 ("number")
\* when every cell is a number, None or NaN and not all of them are None
\* (a column of None alone stays object); "object" otherwise.
IsNumericColumn(rows, col) ==
    /\ \A i \in DOMAIN rows : RawCell(rows[i], col).kind \in {"num", "null", "nan"}
    /\ \E i \in DOMAIN rows : RawCell(rows[i], col).kind \in {"num", "nan"}

\* In a numeric column None is stored as NaN.
Cell(rows, i, col) ==
    IF IsNumericColumn(rows, col) /\ RawCell(rows[i], col).kind = "null"
    THEN NaN ELSE RawCell(rows[i], col)

DataFrame(rows) ==
    LET cols == Columns(rows) IN
    [columns |-> cols,
     data    |-> [i \in DOMAIN rows |-> [c \in Range(cols) |-> Cell(rows, i, c)]],
     numeric |-> {c \in Range(cols) : IsNumericColumn(rows, c)}]

\* df.empty: one of the axes has length 0.
df_empty(df) == Len(df.data) = 0 \/ Len(df.columns) = 0


\* ------------------------------------------------------------ analyze_dataset
\* Program constants of analyze_dataset.
StatsCols == 3
HeadRows == 5
PreviewRows == 3

Float(c) == [nan |-> FALSE, c |-> c]
FloatNaN == [nan |-> TRUE, c |-> 0]

\* df.select_dtypes(include=['number']).columns.tolist()
NumericCols(df) == SelectSeq(df.columns, LAMBDA c : c \in df.numeric)

\* Variant of IsNull: None alone.
IsNullOnlyNone(cell) == cell.kind = "null"
\* df.isnull(): None and NaN are missing values.
IsNull(cell) == cell.kind \in {"null", "nan"}

\* int(df.isnull().sum().sum())
MissingCells(df) ==
    {<<i, c>> \in (DOMAIN df.data) \X Range(df.columns) : IsNull(df.data[i][c])}

\* df.duplicated(): a row equal to an earlier one, None and NaN taken as the
\* same missing value.
NARow(df, i) ==
    [c \in Range(df.columns) |-> IF IsNull(df.data[i][c]) THEN NaN ELSE df.data[i][c]]
Duplicated(df) == {i \in DOMAIN df.data : \E j \in 1..(i - 1) : NARow(df, j) = NARow(df, i)}

\* The numbers of a column (mean, min and max skip NaN).
Present(df, col) == {i \in DOMAIN df.data : df.data[i][col].kind = "num"}
RECURSIVE SumOver(_, _, _)
SumOver(df, col, S) ==
    IF S = {} THEN 0
    ELSE LET i == CHOOSE x \in S : TRUE
         IN  df.data[i][col].val + SumOver(df, col, S \ {i})

\* round(float(df[col].mean()), 2), in hundredths; NaN for a column of NaN.
Mean(df, col) ==
    LET S == Present(df, col)
        n == Cardinality(S)
    IN  IF n = 0 THEN FloatNaN
        ELSE Float((200 * SumOver(df, col, S) + n) \div (2 * n))
ColMin(df, col) ==
    LET S == Present(df, col)
    IN  IF S = {} THEN FloatNaN
        ELSE Float(100 * (CHOOSE v \in {df.data[i][col].val : i \in S} :
                            \A i \in S : v <= df.data[i][col].val))
ColMax(df, col) ==
    LET S == Present(df, col)
    IN  IF S = {} THEN FloatNaN
        ELSE Float(100 * (CHOOSE v \in {df.data[i][col].val : i \in S} :
                            \A i \in S : v >= df.data[i][col].val))

\* Variant of StatsColumns: no slice.
StatsColumnsAll(numeric_cols) == numeric_cols
\* numeric_cols[:3]
StatsColumns(numeric_cols) == SubSeq(numeric_cols, 1, Min(StatsCols, Len(numeric_cols)))

Stats(df) ==
    [col \in Range(StatsColumns(NumericCols(df))) |->
        [media |-> Mean(df, col), minimo |-> ColMin(df, col), maximo |-> ColMax(df, col)]]

\* The dict `resumo` as first built (lines 92-99).
ResumoBase(df) ==
    [total_linhas      |-> Len(df.data),
     total_colunas     |-> Len(df.columns),
     colunas           |-> df.columns,
     colunas_numericas |-> Len(NumericCols(df)),
     valores_faltantes |-> Cardinality(MissingCells(df)),
     linhas_duplicadas |-> Cardinality(Duplicated(df))]

\* Variant of Resumo: the key "estatisticas" is always set.
ResumoAlwaysStats(df) == ResumoBase(df) @@ ("estatisticas" :> Stats(df))
\* `resumo` after the statistics block: the key "estatisticas" is set only
\* when there is a numeric column.
Resumo(df) ==
    IF NumericCols(df) # <<>>
    THEN ResumoBase(df) @@ ("estatisticas" :> Stats(df))
    ELSE ResumoBase(df)

\* estatisticas_str
EstatisticasStr(df) ==
    IF NumericCols(df) # <<>>
    THEN [text |-> "str(stats)", stats |-> Stats(df)]
    ELSE [text |-> "Nenhuma coluna numérica", stats |-> Stats(df)]

\* df.head(5).to_dict(orient='records')
Preview(df) == SubSeq(df.data, 1, Min(HeadRows, Len(df.data)))

\* The arguments of analysis_chain.invoke.
Prompt(df, resumo, filename) ==
    [filename          |-> filename,
     total_linhas      |-> resumo.total_linhas,
     total_colunas     |-> resumo.total_colunas,
     colunas           |-> resumo.colunas,
     valores_faltantes |-> resumo.valores_faltantes,
     linhas_duplicadas |-> resumo.linhas_duplicadas,
     preview           |-> SubSeq(Preview(df), 1, Min(PreviewRows, Len(Preview(df)))),
     estatisticas      |-> EstatisticasStr(df)]

\* Variant of StrOutputParser: the dash lines of the completion alone.
StrOutputParserDashLines(text) == SelectSeq(text, LAMBDA l : l \in {"- a", "- b"})
\* StrOutputParser: the text of the completion, as it is.
StrOutputParser(text) == text


\* ------------------------------------------------------------------ handler
VARIABLES
    request,        \* r -> the DatasetRequest [nome_arquivo, dados_completos]
    pc,             \* r -> the statement the handler of r is about to run
    dados_limpos,   \* r -> local of analyze (optional)
    df,             \* r -> local of analyze (optional)
    resumo,         \* r -> local of analyze_dataset (optional)
    insights,       \* r -> local of analyze_dataset (optional)
    exc,            \* r -> the exception raised inside the try block (optional)
    response,       \* r -> the responses sent to the client of r, in order
    calls,          \* r -> history: the invocations of analysis_chain made for r
    trace           \* r -> history: the stages run for r, in order

vars == <<request, pc, dados_limpos, df, resumo, insights, exc, response, calls, trace>>

Reqs == DOMAIN pc

\* Exceptions.  str(e) of an HTTPException is "<status_code>: <detail>".
HTTPException(status_code, detail) ==
    [type |-> "HTTPException", status_code |-> status_code, detail |-> detail]
Exception(msg) == [type |-> "Exception", status_code |-> 0, detail |-> msg]
StatusText(status_code) == IF status_code = 400 THEN "400: " ELSE "500: "
StrOf(e) == IF e.type = "HTTPException"
            THEN <<StatusText(e.status_code)>> \o e.detail
            ELSE e.detail

\* What a stage that fails raises (pandas, or the completion service).
FailureOf(stage) ==
    IF stage = "frame" THEN Exception(<<"DataFrame constructor failed">>)
    ELSE IF stage = "summary" THEN Exception(<<"summary failed">>)
    ELSE Exception(<<"completion service failed">>)

\* Variant of AnalyzeResponse: a schema with a route field.
AnalyzeResponseWithRoute(nome_arquivo, resumo_dados, text) ==
    [nome_arquivo |-> nome_arquivo, resumo_dados |-> resumo_dados,
     insights |-> text, route |-> "eda"]
\* The AnalyzeResponse schema.
AnalyzeResponse(nome_arquivo, resumo_dados, text) ==
    [nome_arquivo |-> nome_arquivo, resumo_dados |-> resumo_dados, insights |-> text]

\* The responses of the endpoint: the model returned (200), or the
\* HTTPException that leaves the handler.
Returned(body) == [status_code |-> 200, detail |-> <<>>, body |-> <<body>>]
Raised(e) == [status_code |-> e.status_code, detail |-> e.detail, body |-> <<>>]

\* Variant of ExceptClause: the detail without str(e).
ExceptClauseDropsMessage(e) == HTTPException(500, <<"Erro na análise: ">>)
\* except Exception as e: raise HTTPException(500, f"Erro na análise: {str(e)}")
ExceptClause(e) == HTTPException(500, <<"Erro na análise: ">> \o StrOf(e))

\* The completions the service may return: empty, without marker, without
\* dash lines, and the full format.
Replies ==
    { <<>>,
      <<"- a", "- b">>,
      <<"INSIGHTS:", "no dash", "RECOMMENDATION:", "Do X">>,
      <<"INSIGHTS:", "- a", "- b", "RECOMMENDATION:", "Do X">> }

Goto(r, l, stage) ==
    /\ pc' = [pc EXCEPT ![r] = l]
    /\ trace' = [trace EXCEPT ![r] = Append(@, stage)]

Raise(r, e, stage) ==
    /\ exc' = [exc EXCEPT ![r] = <<e>>]
    /\ Goto(r, "except", stage)

\* line 178: dados_limpos = clean_data(request.dados_completos)
CleanStep(r) ==
    /\ pc[r] = "clean"
    /\ dados_limpos' = [dados_limpos EXCEPT ![r] = <<clean_data(request[r].dados_completos)>>]
    /\ Goto(r, "check", "clean")
    /\ UNCHANGED <<request, df, resumo, insights, exc, response, calls>>

\* lines 180-181: if not dados_limpos: raise HTTPException(400, ...)
CheckStep(r) ==
    /\ pc[r] = "check"
    /\ IF dados_limpos[r][1] = <<>>
       THEN Raise(r, HTTPException(400, <<"Dataset vazio após limpeza">>), "check")
       ELSE Goto(r, "frame", "check") /\ UNCHANGED exc
    /\ UNCHANGED <<request, dados_limpos, df, resumo, insights, response, calls>>

\* lines 184-187: df = pd.DataFrame(dados_limpos); if df.empty: raise ...
FrameStep(r) ==
    /\ pc[r] = "frame"
    /\ LET frame == DataFrame(dados_limpos[r][1]) IN
       /\ df' = [df EXCEPT ![r] = <<frame>>]
       /\ IF df_empty(frame)
          THEN Raise(r, HTTPException(400, <<"DataFrame vazio">>), "frame")
          ELSE Goto(r, "summary", "frame") /\ UNCHANGED exc
    /\ UNCHANGED <<request, dados_limpos, resumo, insights, response, calls>>

\* lines 89-115 (called from line 190): the summary of the DataFrame
SummaryStep(r) ==
    /\ pc[r] = "summary"
    /\ resumo' = [resumo EXCEPT ![r] = <<Resumo(df[r][1])>>]
    /\ Goto(r, "invoke", "summary")
    /\ UNCHANGED <<request, dados_limpos, df, insights, exc, response, calls>>

\* lines 118-127: insights = analysis_chain.invoke({...}); the service returns
\* some text
InvokeStep(r) ==
    /\ pc[r] = "invoke"
    /\ \E text \in Replies :
         /\ insights' = [insights EXCEPT ![r] = <<StrOutputParser(text)>>]
         /\ calls' = [calls EXCEPT ![r] = Append(@,
                [prompt |-> Prompt(df[r][1], resumo[r][1], request[r].nome_arquivo),
                 reply  |-> <<text>>])]
    /\ Goto(r, "respond", "invoke")
    /\ UNCHANGED <<request, dados_limpos, df, resumo, exc, response>>

\* Variant of AfterFailure: the failed stage is run again.
AfterFailureRetry(stage) == stage
\* Where the handler goes when a stage raises: the except clause (line 198).
AfterFailure(stage) == "except"

\* A stage after cleaning raises (pandas fails, or the completion call does).
FailStep(r) ==
    /\ pc[r] \in {"frame", "summary", "invoke"}
    /\ exc' = [exc EXCEPT ![r] = <<FailureOf(pc[r])>>]
    /\ Goto(r, AfterFailure(pc[r]), pc[r])
    /\ calls' = [calls EXCEPT ![r] =
            IF pc[r] = "invoke"
            THEN Append(@, [prompt |-> Prompt(df[r][1], resumo[r][1], request[r].nome_arquivo),
                            reply  |-> <<>>])
            ELSE @]
    /\ UNCHANGED <<request, dados_limpos, df, resumo, insights, response>>

\* Variant of LocalOf: one module-level slot, holding what was written first.
LocalOfShared(store, r) ==
    LET written == {q \in DOMAIN store : store[q] # <<>>}
    IN  store[CHOOSE q \in written : \A p \in written : q <= p]
\* The locals a handler reads are its own: each call of analyze has its frame.
LocalOf(store, r) == store[r]

\* lines 129-196: return AnalyzeResponse(...)
RespondStep(r) ==
    /\ pc[r] = "respond"
    /\ response' = [response EXCEPT ![r] =
            Append(@, Returned(AnalyzeResponse(request[r].nome_arquivo,
                                               LocalOf(resumo, r)[1],
                                               LocalOf(insights, r)[1])))]
    /\ Goto(r, "done", "respond")
    /\ UNCHANGED <<request, dados_limpos, df, resumo, insights, exc, calls>>

\* lines 198-199: the except clause turns every exception into a 500
ExceptStep(r) ==
    /\ pc[r] = "except"
    /\ response' = [response EXCEPT ![r] = Append(@, Raised(ExceptClause(exc[r][1])))]
    /\ Goto(r, "error", "except")
    /\ UNCHANGED <<request, dados_limpos, df, resumo, insights, exc, calls>>


\* ------------------------------------------------------------------- inputs
RowsOver(K, V) == UNION {[D -> V] : D \in SUBSET K}
SeqUpTo(S, n) == UNION {[1..m -> S] : m \in 0..n}

Values == {Num(1), Null, Str, List, Dict}

\* Rows of the summary specification: every row over two columns with every
\* kind of value, every row of numbers over four columns, a row with another
\* number, and rows with an "undefined" key.
FnRows ==
    RowsOver({"a", "b"}, Values)
    \cup RowsOver({"a", "b", "c", "d"}, {Num(1)})
    \cup {("a" :> Num(2)), ("undefined" :> Num(1)), ("a" :> Num(1)) @@ ("undefined" :> List)}

\* Rows of the handler specification.
HandlerRows ==
    { ("undefined" :> Str),
      ("a" :> List) @@ ("b" :> Dict),
      ("a" :> Num(1)) @@ ("b" :> Str),
      ("a" :> Num(2)) @@ ("b" :> Null) @@ ("c" :> Num(1)),
      ("b" :> Str) @@ ("c" :> List) }

FileNames == {"f1.csv", "f2.csv"}

\* Requests of the concurrent specification.
ConcRequests ==
    { [nome_arquivo |-> "f1.csv", dados_completos |-> <<("undefined" :> Str)>>],
      [nome_arquivo |-> "f1.csv", dados_completos |-> <<("a" :> Num(1)) @@ ("b" :> Str)>>],
      [nome_arquivo |-> "f2.csv", dados_completos |-> <<("a" :> Num(2)), ("b" :> Str)>>] }

\* ----------------------------------------------------------- specifications
InitWith(ids, requests) ==
    /\ request \in [ids -> requests]
    /\ pc = [r \in ids |-> "clean"]
    /\ dados_limpos = [r \in ids |-> <<>>]
    /\ df = [r \in ids |-> <<>>]
    /\ resumo = [r \in ids |-> <<>>]
    /\ insights = [r \in ids |-> <<>>]
    /\ exc = [r \in ids |-> <<>>]
    /\ response = [r \in ids |-> <<>>]
    /\ calls = [r \in ids |-> <<>>]
    /\ trace = [r \in ids |-> <<>>]

\* One request through the whole handler.
Init == InitWith({1}, [nome_arquivo : FileNames,
                       dados_completos : SeqUpTo(HandlerRows, MaxRows)])

Next ==
    \/ \E r \in Reqs : CleanStep(r)
    \/ \E r \in Reqs : CheckStep(r)
    \/ \E r \in Reqs : FrameStep(r)
    \/ \E r \in Reqs : SummaryStep(r)
    \/ \E r \in Reqs : InvokeStep(r)
    \/ \E r \in Reqs : FailStep(r)
    \/ \E r \in Reqs : RespondStep(r)
    \/ \E r \in Reqs : ExceptStep(r)

Spec == Init /\ [][Next]_vars

\* NReq requests served concurrently, their steps interleaved.
InitConc == InitWith(1..NReq, ConcRequests)
SpecConc == InitConc /\ [][Next]_vars

\* Cleaning, DataFrame and summary over every row list of FnRows.
InitFn == InitWith({1}, [nome_arquivo : {"f1.csv"},
                         dados_completos : SeqUpTo(FnRows, MaxRows)])
NextFn ==
    \/ \E r \in Reqs : CleanStep(r)
    \/ \E r \in Reqs : CheckStep(r)
    \/ \E r \in Reqs : FrameStep(r)
    \/ \E r \in Reqs : SummaryStep(r)
SpecFn == InitFn /\ [][NextFn]_vars


\* ------------------------------------------------------------------- claims
Terminated(r) == pc[r] \in {"done", "error"}
Body(r) == response[r][1].body[1]
IsPrefix(s, t) == Len(s) <= Len(t) /\ \A i \in DOMAIN s : s[i] = t[i]
StageOrder == <<"clean", "check", "frame", "summary", "invoke", "respond">>
\* The stages run, without the final jump to the except clause.
Forward(t) == IF t # <<>> /\ t[Len(t)] = "except" THEN SubSeq(t, 1, Len(t) - 1) ELSE t
\* The fields of a payload row that the cleaning is to keep.
KeepSet(row) == {k \in DOMAIN row : k # "undefined" /\ row[k].kind \notin {"list", "dict"}}
AllDropped(dados) == \A i \in DOMAIN dados : KeepSet(dados[i]) = {}

\* C1: a request whose rows are all dropped by cleaning ends in a client
\* error (400), not in the server error (500), and neither the summary nor
\* the completion call is performed for it.
C1_EmptyDatasetIsClientError ==
    \A r \in Reqs :
        (Terminated(r) /\ AllDropped(request[r].dados_completos)) =>
            /\ response[r][1].status_code = 400
            /\ resumo[r] = <<>>
            /\ calls[r] = <<>>

\* C2: when a stage after cleaning fails, the request ends in exactly one
\* error response carrying the underlying message and no AnalyzeResponse; a
\* request ends either in one complete response or in one error, never in
\* both and never in a partial result.
C2_CompleteOrSingleError ==
    \A r \in Reqs :
        /\ Len(response[r]) = (IF Terminated(r) THEN 1 ELSE 0)
        /\ exc[r] # <<>> => pc[r] \in {"except", "error"}
        /\ (pc[r] = "error" /\ exc[r][1].type = "Exception") =>
              response[r][1] = [status_code |-> 500,
                                detail |-> <<"Erro na análise: ">> \o exc[r][1].detail,
                                body |-> <<>>]
        /\ pc[r] = "error" => response[r][1].status_code # 200 /\ response[r][1].body = <<>>
        /\ pc[r] = "done" =>
              /\ exc[r] = <<>>
              /\ response[r][1].status_code = 200
              /\ Len(response[r][1].body) = 1
              /\ resumo[r] # <<>> /\ Body(r).resumo_dados = resumo[r][1]
              /\ insights[r] # <<>> /\ Body(r).insights = insights[r][1]
              /\ Body(r).nome_arquivo = request[r].nome_arquivo

\* A stage failed after the summary was computed, and the request ended.
C2_Witness ==
    \E r \in Reqs : pc[r] = "error" /\ exc[r][1].type = "Exception" /\ resumo[r] # <<>>

\* The stages run so far are a prefix of the stage order; at most one
\* completion call, made with the computed summary.
C3_StagesForward ==
    \A r \in Reqs :
        /\ IsPrefix(Forward(trace[r]), StageOrder)
        /\ Len(calls[r]) <= 1
        /\ calls[r] # <<>> =>
              /\ resumo[r] # <<>>
              /\ calls[r][1].prompt.total_linhas = resumo[r][1].total_linhas
              /\ calls[r][1].prompt.colunas = resumo[r][1].colunas
              /\ calls[r][1].prompt.valores_faltantes = resumo[r][1].valores_faltantes
\* A step leaves a computed summary as it is.
C3_SummaryKept ==
    \A r \in Reqs : resumo[r] # <<>> => resumo'[r] = resumo[r]

\* C3: the stages of a request run forward and once each (cleaning, emptiness
\* check, DataFrame, summary, completion call, response); the completion call
\* is made at most once, only after the summary is computed, never again
\* after a failure, and its reply never changes the summary.
C3_SinglePass == [](C3_StagesForward) /\ [][C3_SummaryKept]_vars

\* A request ran all six stages.
C3_Witness == \E r \in Reqs : pc[r] = "done" /\ trace[r] = StageOrder

ClaimedMarkerAt(text) ==
    IF \E i \in DOMAIN text : text[i] = "RECOMMENDATION:"
    THEN CHOOSE i \in DOMAIN text :
            text[i] = "RECOMMENDATION:" /\ \A j \in 1..(i - 1) : text[j] # "RECOMMENDATION:"
    ELSE Len(text) + 1
ClaimedStrip(line) == IF line = "- a" THEN "a" ELSE "b"
RECURSIVE ClaimedDashLines(_)
ClaimedDashLines(block) ==
    IF block = <<>> THEN <<>>
    ELSE (IF Head(block) \in {"- a", "- b"} THEN <<ClaimedStrip(Head(block))>> ELSE <<>>)
         \o ClaimedDashLines(Tail(block))
ClaimedInsights(text) ==
    LET found == ClaimedDashLines(SubSeq(text, 1, ClaimedMarkerAt(text) - 1))
    IN  IF found = <<>> THEN <<"fallback insight">> ELSE found
ClaimedRecommendation(text) ==
    IF ClaimedMarkerAt(text) > Len(text) THEN <<"analysis complete">>
    ELSE SubSeq(text, ClaimedMarkerAt(text) + 1, Len(text))

C8_OwnResult ==
    \A r \in Reqs :
        LET limpos == clean_data(request[r].dados_completos)
            frame  == DataFrame(limpos)
        IN  /\ \A i \in DOMAIN calls[r] :
                   calls[r][i].prompt = Prompt(frame, Resumo(frame), request[r].nome_arquivo)
            /\ pc[r] = "done" =>
                   response[r] = <<Returned(AnalyzeResponse(request[r].nome_arquivo,
                                                            Resumo(frame),
                                                            calls[r][1].reply[1]))>>
            /\ pc[r] = "error" =>
                   /\ response[r] = <<Raised(ExceptClause(exc[r][1]))>>
                   /\ exc[r][1] \in (IF limpos = <<>>
                                     THEN {HTTPException(400, <<"Dataset vazio após limpeza">>)}
                                     ELSE {FailureOf(s) : s \in {"frame", "summary", "invoke"}})
StateOf(r) == <<request[r], pc[r], dados_limpos[r], df[r], resumo[r], insights[r],
                exc[r], response[r], calls[r], trace[r]>>
\* A step changes the state of one request only.
C8_OneRequestPerStep ==
    \E r \in Reqs : \A q \in Reqs \ {r} : StateOf(q)' = StateOf(q)

\* C8: under any interleaving of concurrent requests, no state written for
\* one request is read for another: a step changes the state of one request
\* only, and what a request receives is what it would receive alone, a
\* function of its own rows, file name and completion reply.
C8_RequestsIsolated == [](C8_OwnResult) /\ [][C8_OneRequestPerStep]_vars

\* A request is answered while another, with a different summary, is between
\* its summary and its completion call.
C8_Witness ==
    \E r, q \in Reqs :
        /\ r # q /\ pc[r] = "done" /\ pc[q] = "invoke"
        /\ Body(r).resumo_dados # resumo[q][1]


C7_StatsPerNumericColumn ==
    \A r \in Reqs :
        (resumo[r] # <<>> /\ df[r][1].numeric # {}) =>
            /\ DOMAIN resumo[r][1].estatisticas = df[r][1].numeric
            /\ Cardinality(DOMAIN resumo[r][1].estatisticas) = resumo[r][1].colunas_numericas

\* Position of a column in the DataFrame.
ColumnIndex(frame, c) == CHOOSE i \in DOMAIN frame.columns : frame.columns[i] = c

\* C7 (amended): with at least one numeric column, the statistics map has one
\* entry (media, minimo, maximo) for each of the first three numeric columns
\* in column order and none for a later one: its size is the smaller of 3 and
\* the reported numeric-column count.
C7_StatsFirstThreeNumeric ==
    \A r \in Reqs :
        (resumo[r] # <<>> /\ df[r][1].numeric # {}) =>
            LET frame == df[r][1]
                stats == resumo[r][1].estatisticas
            IN  /\ resumo[r][1].colunas_numericas = Cardinality(frame.numeric)
                /\ DOMAIN stats \subseteq frame.numeric
                /\ Cardinality(DOMAIN stats) = Min(3, resumo[r][1].colunas_numericas)
                /\ \A c \in DOMAIN stats : \A e \in frame.numeric :
                       ColumnIndex(frame, e) < ColumnIndex(frame, c) => e \in DOMAIN stats
                /\ \A c \in DOMAIN stats : DOMAIN stats[c] = {"media", "minimo", "maximo"}

\* The summary of a dataset with four numeric columns.
C7_Witness ==
    \E r \in Reqs : resumo[r] # <<>> /\ resumo[r][1].colunas_numericas = 4

\* The indices of the payload rows that keep a field, in order.
RECURSIVE SurvivorsFrom(_, _)
SurvivorsFrom(dados, i) ==
    IF i > Len(dados) THEN <<>>
    ELSE (IF KeepSet(dados[i]) # {} THEN <<i>> ELSE <<>>) \o SurvivorsFrom(dados, i + 1)

\* The cleaned rows are the surviving payload rows, in order, each with
\* exactly its kept fields and their values.
C9_Cleaned ==
    \A r \in Reqs :
        dados_limpos[r] # <<>> =>
            LET dados == request[r].dados_completos
                out   == dados_limpos[r][1]
                idx   == SurvivorsFrom(dados, 1)
            IN  /\ Len(out) = Len(idx)
                /\ \A j \in DOMAIN out :
                      /\ DOMAIN out[j] # {}
                      /\ "undefined" \notin DOMAIN out[j]
                      /\ \A k \in DOMAIN out[j] : out[j][k].kind \notin {"list", "dict"}
                      /\ DOMAIN out[j] = KeepSet(dados[idx[j]])
                      /\ \A k \in DOMAIN out[j] : out[j][k] = dados[idx[j]][k]
\* A step leaves the payload as it is.
C9_InputKept == request' = request

C10_SameColumnSet ==
    \A r \in Reqs :
        dados_limpos[r] # <<>> =>
            \A i, j \in DOMAIN dados_limpos[r][1] :
                DOMAIN dados_limpos[r][1][i] = DOMAIN dados_limpos[r][1][j]

PayloadNulls(rows) ==
    {<<i, k>> \in (DOMAIN rows) \X Range(KeyOrder) :
        k \in DOMAIN rows[i] /\ rows[i][k].kind = "null"}
AbsentCells(rows) ==
    {<<i, k>> \in (DOMAIN rows) \X Range(KeyOrder) :
        k \notin DOMAIN rows[i] /\ \E j \in DOMAIN rows : k \in DOMAIN rows[j]}

\* C10 (amended): the rows that survive cleaning keep their own key sets,
\* which may differ; the columns of the Dataset are the union of those key
\* sets, a row without a column gets a missing cell there, and the
\* missing-value count is the number of payload nulls plus the number of
\* those introduced cells.
C10_MissingCountsAbsentCells ==
    \A r \in Reqs :
        resumo[r] # <<>> =>
            LET rows == dados_limpos[r][1] IN
            /\ Range(resumo[r][1].colunas) = UNION {DOMAIN rows[i] : i \in DOMAIN rows}
            /\ resumo[r][1].total_colunas = Cardinality(Range(resumo[r][1].colunas))
            /\ resumo[r][1].valores_faltantes =
                   Cardinality(PayloadNulls(rows)) + Cardinality(AbsentCells(rows))

\* The summary of two surviving rows with different key sets, one of them
\* with a payload null.
C10_Witness ==
    \E r \in Reqs :
        /\ resumo[r] # <<>>
        /\ Len(dados_limpos[r][1]) = 2
        /\ DOMAIN dados_limpos[r][1][1] # DOMAIN dados_limpos[r][1][2]
        /\ Cardinality(PayloadNulls(dados_limpos[r][1])) = 1
        /\ resumo[r][1].valores_faltantes > 1

=============================================================================
